---- MODULE Spec2Model ----
(***************************************************************************)
(* A model of architect-agent.js: the deFramer byte-stream parser, the     *)
(* freeze/liven marshaling pair, the Transport over a duplex stream, and   *)
(* the Remote (Peer) state machine with the Agent's connect wrapper.       *)
(*                                                                         *)
(* JavaScript `undefined` is modelled as the empty tuple <<>> and a        *)
(* defined value x of an optional field as the one-element tuple <<x>>.    *)
(***************************************************************************)
EXTENDS Integers, Sequences, FiniteSets, TLC

VARIABLES
    parser,     \* deFramer closure: [state, length, buffer, offset]
    frames,     \* the frames handed to onFrame so far, in order
    blobs,      \* the byte blobs B1..Bn whose framed concatenation is fed
    rest,       \* the bytes of the framed stream not yet fed to parse
    subject,    \* marshaling: the live value [heap, root] handed to freeze
    frozen,     \* marshaling: freeze's result [heap, root], once computed
    livened,    \* marshaling: liven's result [heap, root], once computed
    duplex,     \* Transport: whether input and output are the same stream
    listeners,  \* Transport: the <<stream, event>> listeners it has installed
    destroyed,  \* Transport: the streams it has destroyed
    emitted,    \* Transport: [count, after]: how often it emitted each event,
                \* and the events it emitted after its EDISCONNECT error
    messages,   \* Transport: the messages it emitted, in order
    occurred,   \* Transport: the <<stream, event>> pairs the streams have emitted
    streamEvents, \* Transport: the number of stream events so far
    remote,     \* Remote: [transport, callbacks, nextKey, api]
    agent,      \* Agent.connect: [listening, timer, callback, first, late]
    regs,       \* Remote: the number of wrappers _storeFunction has created
    invoked,    \* Remote: per wrapper, how it has been invoked so far
    events,     \* Remote: the connect and disconnect events since connect()
    connects,   \* Remote: the number of connect() calls so far
    errorListener, \* Remote: whether the application listens for "error"
    far,        \* the Peer at the other end of the stream: [remote, agent, regs,
                \* invoked, events, connects, published]
    wire,       \* the messages in flight to each end: [near, far]
    held,       \* the handle proxies a published procedure received and kept
    last        \* the handler that ran last: what it did, in order

framerVars == <<parser, frames, blobs, rest>>

marshalVars == <<subject, frozen, livened>>

transportVars == <<duplex, listeners, destroyed, emitted, messages, occurred, streamEvents>>

peerVars == <<remote, agent, regs, invoked, events, connects, errorListener, far, wire,
              held, last>>

linkVars == <<far, wire, held>>

vars == <<parser, frames, blobs, rest, subject, frozen, livened,
          duplex, listeners, destroyed, emitted, messages, occurred, streamEvents,
          remote, agent, regs, invoked, events, connects, errorListener, far, wire,
          held, last>>

\* ------------------------------------------------------------------ bounds

MaxByte == 1
MaxBlobLen == 2
MaxFrames == 2
MaxNodes == 2
MaxProps == 3
MaxStreamEvents == 4
MaxConnects == 2
MaxRegs == 2
MaxCount == 2
MaxTable == 3

\* ----------------------------------------------------------- JS primitives

Undefined == <<>>

Some(x) == <<x>>

\* The content of a Buffer slot that new Buffer(n) allocated and nothing wrote.
Uninit == -1

Byte == 0..MaxByte

RECURSIVE BitOr(_, _)
\* a | b on non-negative integers.
BitOr(a, b) ==
    IF a = 0 THEN b
    ELSE IF b = 0 THEN a
    ELSE (IF a % 2 = 1 \/ b % 2 = 1 THEN 1 ELSE 0) + 2 * BitOr(a \div 2, b \div 2)

RECURSIVE Pow2(_)
Pow2(n) == IF n = 0 THEN 1 ELSE 2 * Pow2(n - 1)

\* b << n as a 32-bit signed integer, for a byte b and n in {0, 8, 16, 24}.
ShiftLeft(b, n) ==
    IF n = 24 /\ b >= 128 THEN (b - 256) * Pow2(24) ELSE b * Pow2(n)

\* ------------------------------------------------------------------ Framer

\* header.writeUInt32BE(frame.length, 0): the 4-byte big-endian length.
writeUInt32BE(n) ==
    << (n \div Pow2(24)) % 256, (n \div Pow2(16)) % 256, (n \div 256) % 256, n % 256 >>

\* What Transport.send writes for one payload: the header, then the payload.
Frame(blob) == writeUInt32BE(Len(blob)) \o blob

RECURSIVE FrameAll(_)
FrameAll(bs) == IF bs = <<>> THEN <<>> ELSE Frame(Head(bs)) \o FrameAll(Tail(bs))

\* The closure variables of deFramer right after deFramer(onFrame) returns.
deFramer == [state |-> 0, length |-> 0, buffer |-> Undefined, offset |-> Undefined]

\* chunk.copy(buffer, offset, i, i + len), with i counted from 0.
Copy(buffer, offset, chunk, i, len) ==
    [k \in 1..Len(buffer) |->
        IF k > offset /\ k <= offset + len THEN chunk[i + (k - offset)] ELSE buffer[k]]

RECURSIVE parse(_, _, _, _)
\* parse(chunk) from loop index i (counted from 0).  d carries the closure
\* variables, the frames handed to onFrame (out) and whether an exception
\* left the loop (raised); raises is the set of frames on which onFrame throws.
parse(d, chunk, i, raises) ==
    IF i >= Len(chunk) THEN d
    ELSE
      LET b == chunk[i + 1] IN
      CASE d.state = 0 ->
             parse([d EXCEPT !.length = BitOr(@, ShiftLeft(b, 24)), !.state = 1],
                   chunk, i + 1, raises)
        [] d.state = 1 ->
             parse([d EXCEPT !.length = BitOr(@, ShiftLeft(b, 16)), !.state = 2],
                   chunk, i + 1, raises)
        [] d.state = 2 ->
             parse([d EXCEPT !.length = BitOr(@, ShiftLeft(b, 8)), !.state = 3],
                   chunk, i + 1, raises)
        [] d.state = 3 ->
             LET length == BitOr(d.length, b) IN
             parse([d EXCEPT !.length = length, !.state = 4,
                             !.buffer = Some([k \in 1..length |-> Uninit]),
                             !.offset = Some(0)],
                   chunk, i + 1, raises)
        [] d.state = 4 ->
             LET avail == Len(chunk) - i
                 offset == d.offset[1]
                 emit == avail + offset >= d.length
                 len == IF emit THEN d.length - offset ELSE avail
                 buffer == Copy(d.buffer[1], offset, chunk, i, len)
                 copied == [d EXCEPT !.buffer = Some(buffer), !.offset = Some(offset + len)]
                 j == i + len - 1
             IN IF ~emit THEN parse(copied, chunk, j + 1, raises)
                ELSE IF buffer \in raises
                     THEN [copied EXCEPT !.out = Append(@, buffer), !.raised = TRUE]
                     ELSE parse([copied EXCEPT !.out = Append(@, buffer),
                                               !.state = 0, !.length = 0,
                                               !.buffer = Undefined,
                                               !.offset = Undefined],
                                chunk, j + 1, raises)

\* One call parse(chunk) on closure p with an onFrame that collects its frames.
Parse(p, chunk, raises) ==
    parse([state |-> p.state, length |-> p.length, buffer |-> p.buffer,
           offset |-> p.offset, out |-> <<>>, raised |-> FALSE],
          chunk, 0, raises)

Closure(d) ==
    [state |-> d.state, length |-> d.length, buffer |-> d.buffer, offset |-> d.offset]

\* ------------------------------------------------------- structured values

(***************************************************************************)
(* A JavaScript string is a tuple of characters, so that key[0] and        *)
(* "$" + key are operations on it.  A value is a tagged record: a number,  *)
(* a string, a procedure, or a reference to a node of a heap; a heap is a  *)
(* sequence of nodes, each an array or an object with its own properties   *)
(* in insertion order.  Property names are strings, an array's indices     *)
(* being the strings "0", "1", ... as in JavaScript property lookup.       *)
(***************************************************************************)
Num(n) == [t |-> "number", v |-> n]

Str(s) == [t |-> "string", v |-> s]

Fn(f) == [t |-> "function", v |-> f]

Ref(n) == [t |-> "ref", v |-> n]

NoValue == [t |-> "undefined", v |-> 0]

Digits == <<"0", "1", "2", "3", "4", "5", "6", "7", "8", "9">>

\* String(i) for an array index i.
IndexKey(i) == <<Digits[i + 1]>>

NewObject == [type |-> "object", keys |-> <<>>, vals |-> <<>>]

NewArray == [type |-> "array", keys |-> <<>>, vals |-> <<>>]

\* The array literal holding vals.
ArrayOf(vals) ==
    [type |-> "array", keys |-> [i \in 1..Len(vals) |-> IndexKey(i - 1)], vals |-> vals]

\* seq.indexOf(x), counted from 0; -1 when absent.
indexOf(seq, x) ==
    IF \E i \in 1..Len(seq) : seq[i] = x
    THEN (CHOOSE i \in 1..Len(seq) : seq[i] = x /\ \A j \in 1..(i - 1) : seq[j] # x) - 1
    ELSE -1

\* node.hasOwnProperty(key)
hasOwnProperty(node, key) == \E i \in 1..Len(node.keys) : node.keys[i] = key

\* node[key]
GetProp(node, key) ==
    IF hasOwnProperty(node, key) THEN node.vals[indexOf(node.keys, key) + 1] ELSE NoValue

\* node[key] = value
SetProp(node, key, value) ==
    IF hasOwnProperty(node, key)
    THEN [node EXCEPT !.vals[indexOf(node.keys, key) + 1] = value]
    ELSE [node EXCEPT !.keys = Append(@, key), !.vals = Append(@, value)]

getType(h, value) == IF value.t = "ref" THEN h[value.v].type ELSE value.t

RECURSIVE get(_, _, _)
\* get(root, path): target = target[path[i]] along the path.
get(h, root, path) ==
    IF path = <<>> THEN root
    ELSE IF root.t # "ref" THEN NoValue
    ELSE get(h, GetProp(h[root.v], Head(path)), Tail(path))

\* --------------------------------------------------------- callback handles

MaxInt32 == 2147483647

MinInt32 == -2147483647 - 1

\* (key + 1) >> 0
NextKeyAfter(key) == IF key = MaxInt32 THEN MinInt32 ELSE key + 1

\* A table in which no key ever counts as taken.
NeverOccupied(callbacks, key) == FALSE

\* this.callbacks.hasOwnProperty(key)
Occupied(callbacks, key) == key \in DOMAIN callbacks

RECURSIVE ScanKey(_, _, _)
\* The while loop of _storeFunction: the first key from `key` on that
\* callbacks does not hold, or Undefined when the scan is back at nextKey.
ScanKey(callbacks, key, nextKey) ==
    IF ~Occupied(callbacks, key) THEN Some(key)
    ELSE LET k == NextKeyAfter(key)
         IN IF k = nextKey THEN Undefined ELSE ScanKey(callbacks, k, nextKey)

\* this._storeFunction(fn) on r = [callbacks, nextKey, regs]: the table, the
\* counter, and the number of registrations made so far (each stored wrapper
\* is a new closure; regs names it).  key is Undefined when it throws.
storeFunction(r, fn) ==
    LET found == ScanKey(r.callbacks, r.nextKey, r.nextKey)
    IN IF found = Undefined THEN [store |-> r, key |-> Undefined]
       ELSE LET key == found[1]
                reg == r.regs + 1
            IN [store |-> [callbacks |-> [k \in DOMAIN r.callbacks \cup {key} |->
                                            IF k = key THEN [fn |-> fn, reg |-> reg]
                                            ELSE r.callbacks[k]],
                           nextKey |-> NextKeyAfter(key),
                           regs |-> reg],
                key |-> Some(key)]

\* this._getFunction(key): a proxy closed over the transport bound right now.
getFunction(transport, key) == Fn([proxy |-> "handle", key |-> key, transport |-> transport])

\* ----------------------------------------------------------------- freeze

\* The keyMap argument freeze passes to map.
keyMap(key) == IF key # <<>> /\ key[1] = "$" THEN <<"$">> \o key ELSE key

\* JavaScript truthiness of a storeFunction result.
Truthy(o) == o # Undefined /\ o[1] # 0

RECURSIVE freezeFind(_, _, _, _), freezeMap(_, _, _, _, _, _)
\* find(value, path) of freeze on heap h.  st = [seen, paths, out, store]:
\* the two registries, the heap of the objects freeze has created, and the
\* storeFunction state.  Returns the new st and the value find returns.
freezeFind(h, value, path, st) ==
    LET type == getType(h, value) IN
    IF type \notin {"function", "object", "array"} THEN [st |-> st, val |-> value]
    ELSE
      LET index == indexOf(st.seen, value) IN
      IF index >= 0
      THEN LET pathArray == ArrayOf([i \in 1..Len(st.paths[index + 1]) |->
                                       Str(st.paths[index + 1][i])])
               out1 == Append(st.out, pathArray)
               out2 == Append(out1, SetProp(NewObject, <<"$">>, Ref(Len(out1))))
           IN [st |-> [st EXCEPT !.out = out2], val |-> Ref(Len(out2))]
      ELSE
        LET st1 == [st EXCEPT !.seen = Append(@, value), !.paths = Append(@, path)]
            stored == IF type = "function" THEN storeFunction(st1.store, value.v)
                      ELSE [store |-> st1.store, key |-> Undefined]
            o == stored.key
            st2 == [st1 EXCEPT !.store = stored.store]
        IN IF Truthy(o)
           THEN LET out1 == Append(st2.out, SetProp(NewObject, <<"$">>, Num(o[1])))
                IN [st |-> [st2 EXCEPT !.out = out1], val |-> Ref(Len(out1))]
           ELSE LET node == IF type = "function" THEN NewObject ELSE h[value.v]
                    m == freezeMap(h, node, 1, path, st2,
                                   IF type = "array" THEN NewArray ELSE NewObject)
                    out1 == Append(m.st.out, m.node)
                IN [st |-> [m.st EXCEPT !.out = out1], val |-> Ref(Len(out1))]

\* map(value, callback, null, keyMap) from the i-th own property of node on;
\* acc is the array or object under construction.
freezeMap(h, node, i, path, st, acc) ==
    IF i > Len(node.keys) THEN [st |-> st, node |-> acc]
    ELSE LET key == node.keys[i]
             r == freezeFind(h, node.vals[i], Append(path, key), st)
             to == IF node.type = "array" THEN key ELSE keyMap(key)
         IN freezeMap(h, node, i + 1, path, r.st, SetProp(acc, to, r.val))

\* freeze(value, storeFunction): [heap, root] of the wire value and the
\* storeFunction state after it.
freeze(h, value, store) ==
    LET r == freezeFind(h, value, <<>>,
                        [seen |-> <<>>, paths |-> <<>>, out |-> <<>>, store |-> store])
    IN [heap |-> r.st.out, root |-> r.val, store |-> r.st.store]

\* ------------------------------------------------------------------ liven

\* The holder `var obj = {}` is node 1 of the heap liven builds.
Holder == 1

RootKey == <<"r", "o", "o", "t">>

\* The property name that value.hasOwnProperty looks up.
HasOwnPropertyKey == <<"h", "a", "s", "O", "w", "n", "P", "r", "o", "p", "e", "r", "t", "y">>

RECURSIVE livenFind(_, _, _, _, _, _), livenEach(_, _, _, _, _, _)
\* find(value, parent, key) of liven on wire heap w.  s = [heap, raised]:
\* the heap liven has built so far, and whether a TypeError has left find.
\* parent is a node of s.heap.
livenFind(w, value, parent, key, s, transport) ==
    LET type == getType(w, value)
        key1 == IF key # <<>> /\ key[1] = "$" THEN Tail(key) ELSE key
        Assign(x) == [s EXCEPT !.heap[parent] = SetProp(@, key1, x)]
    IN IF type \notin {"function", "object", "array"} THEN Assign(value)
       ELSE IF value.t = "ref" /\ hasOwnProperty(w[value.v], HasOwnPropertyKey)
       \* value.hasOwnProperty is the value's own property, which in a
       \* wire value is no procedure: the call throws.
       THEN [s EXCEPT !.raised = TRUE]
       ELSE IF value.t = "ref" /\ hasOwnProperty(w[value.v], <<"$">>)
       THEN LET special == GetProp(w[value.v], <<"$">>) IN
            IF getType(w, special) = "array"
            THEN LET path == [i \in 1..Len(w[special.v].vals) |-> w[special.v].vals[i].v]
                 IN Assign(get(s.heap, GetProp(s.heap[Holder], RootKey), path))
            ELSE Assign(getFunction(transport, special))
       ELSE LET o == Len(s.heap) + 1
                s1 == [s EXCEPT !.heap = Append(@, IF type = "array" THEN NewArray
                                                   ELSE NewObject)]
                s2 == [s1 EXCEPT !.heap[parent] = SetProp(@, key1, Ref(o))]
            IN IF value.t = "ref" THEN livenEach(w, w[value.v], 1, o, s2, transport)
               ELSE s2

\* forEach(value, function (sub, key) { find(sub, o, key); }) from the i-th
\* own property of node on.
livenEach(w, node, i, o, s, transport) ==
    IF i > Len(node.keys) \/ s.raised THEN s
    ELSE livenEach(w, node, i + 1, o,
                   livenFind(w, node.vals[i], o, node.keys[i], s, transport),
                   transport)

\* liven(message, getFunction): [heap, root] of the live value, or raised
\* when liven throws.
liven(w, message, transport) ==
    LET s == livenFind(w, message, Holder, RootKey,
                       [heap |-> <<NewObject>>, raised |-> FALSE], transport)
    IN [heap |-> s.heap, root |-> GetProp(s.heap[Holder], RootKey), raised |-> s.raised]

RECURSIVE HasCycle(_, _, _)
\* Whether some node reachable from v lies on a cycle.
HasCycle(h, v, stack) ==
    /\ v.t = "ref"
    /\ \/ v.v \in stack
       \/ \E i \in 1..Len(h[v.v].vals) : HasCycle(h, h[v.v].vals[i], stack \cup {v.v})

RECURSIVE HasFunction(_, _, _)
\* Whether a procedure is reachable from v.
HasFunction(h, v, visited) ==
    \/ v.t = "function"
    \/ /\ v.t = "ref"
       /\ v.v \notin visited
       /\ \E i \in 1..Len(h[v.v].vals) : HasFunction(h, h[v.v].vals[i], visited \cup {v.v})

\* g is a wire value: no cycle and no procedure.
IsWire(g) == ~HasCycle(g.heap, g.root, {}) /\ ~HasFunction(g.heap, g.root, {})


\* ------------------------------------------------------------------ Remote

Null == [t |-> "null", v |-> 0]

\* An Error object with the given code (or message).
Err(code) == [t |-> "error", v |-> code]

sReady == <<"r", "e", "a", "d", "y">>

sEcho == <<"e", "c", "h", "o">>

sAdd == <<"a", "d", "d">>

sFoo == <<"f", "o", "o">>

sToString == <<"t", "o", "S", "t", "r", "i", "n", "g">>

\* The names every object literal inherits from Object.prototype, of which
\* the model uses one: {}[name] is a function for each of them.
ObjectPrototype == {sToString}

\* new Remote(agent)
Remote == [transport |-> Undefined, callbacks |-> Undefined, nextKey |-> Undefined,
           api |-> <<>>]

\* The state of Agent.prototype.connect's closure before it is called.
NoAgentConnect ==
    [called |-> FALSE, listening |-> FALSE, timer |-> FALSE, callback |-> <<>>,
     first |-> Undefined, late |-> {}]

\* How often "connect" and "disconnect" were emitted since connect().
NoRemoteEvents == [k \in {"connect", "disconnect"} |-> 0]

Count(n) == IF n < MaxCount THEN n + 1 ELSE n

(***************************************************************************)
(* A handler runs on a bundle b of the program state: b.remote, b.agent,   *)
(* b.regs, b.invoked and b.events are the variables of the same names,     *)
(* b.heap is the heap of the live values the handler holds, b.trace the    *)
(* calls, sends and events it has made, in order, b.flushed the callback   *)
(* table disconnect() found when it ran with a Transport bound, and        *)
(* b.threw the exception that has left the code run so far, b.lenient      *)
(* whether msgpack.encode, which is not part of this source, takes a       *)
(* procedure without throwing, and b.published Object.keys(agent.api) of   *)
(* the local Agent.                                                        *)
(***************************************************************************)
Bundle ==
    [remote |-> remote, agent |-> agent, regs |-> regs, invoked |-> invoked,
     events |-> events, heap |-> <<>>, trace |-> <<>>, flushed |-> Undefined,
     threw |-> Undefined, lenient |-> TRUE, published |-> <<sEcho>>]

\* The element of a singleton.  The({F(x) : x \in {e}}) is F(e) with e
\* evaluated once, however often F uses x.
The(S) == CHOOSE r \in S : TRUE

Effect(b, x) == [b EXCEPT !.trace = Append(@, x)]

Throw(b, err) == [b EXCEPT !.threw = Some(err)]

\* A reset() that stops nothing.
resetNothing(b) == b

\* reset() of Agent.prototype.connect
reset(b) == [b EXCEPT !.agent.listening = FALSE, !.agent.timer = FALSE]

\* callback(...) of Agent.prototype.connect, with the outcome it reports.
callback(b, outcome) ==
    Effect([b EXCEPT !.agent.callback = Append(@, outcome)],
           [e |-> "agentCallback", outcome |-> outcome])

\* The first of connect, error and timeout after Agent.connect, and the ones
\* that came after it.
Outcome(b, outcome) ==
    [b EXCEPT !.agent.first = IF @ = Undefined THEN Some(outcome) ELSE @,
              !.agent.late = IF b.agent.first = Undefined THEN @ ELSE @ \cup {outcome}]

\* remote.emit(event, arg): the listeners Agent.connect attached run; an
\* "error" nobody listens for is thrown by the emitter.
emit(b, event, arg) ==
    The({IF event \in {"connect", "error"} /\ b1.agent.listening
         THEN callback(reset(Outcome(b1, event)), event)
         ELSE IF event = "error" /\ ~errorListener
         THEN Throw(IF b1.agent.called THEN Outcome(b1, event) ELSE b1, arg)
         ELSE IF event \in {"connect", "error"} /\ b1.agent.called
         THEN Outcome(b1, event)
         ELSE b1 :
           b1 \in {Effect([b EXCEPT !.events = IF event \in DOMAIN @
                                                THEN [@ EXCEPT ![event] = Count(@)]
                                                ELSE @],
                          [e |-> "emit", event |-> event, arg |-> arg])}})

\* transport.send(message) on Transport t: msgpack.encode recurses without
\* end on a cyclic message, and may or may not throw on a procedure.
transportSend(b, t, message) ==
    The({IF HasCycle(b1.heap, message, {}) THEN Throw(b1, "RangeError")
         ELSE IF HasFunction(b1.heap, message, {}) /\ ~b1.lenient THEN Throw(b1, "Error")
         ELSE b1 :
           b1 \in {Effect(b, [e |-> "send", transport |-> t,
                              message |-> [heap |-> b.heap, root |-> message]])}})

\* The storeFunction state of the Remote in b.
Store(b) ==
    [callbacks |-> b.remote.callbacks[1], nextKey |-> b.remote.nextKey[1],
     regs |-> b.regs]

\* b after freeze has left the storeFunction state store.
Stored(b, store) ==
    [b EXCEPT !.remote.callbacks = Some(store.callbacks),
              !.remote.nextKey = Some(store.nextKey),
              !.regs = store.regs,
              !.invoked = @ \o [i \in 1..(store.regs - b.regs) |-> <<>>]]

\* Remote.prototype.send(message): freeze with this._storeFunction, then
\* this.transport.send.  With no table, _storeFunction throws on the first
\* procedure; with no Transport, this.transport.send throws.
send(b, message) ==
    IF b.remote.callbacks = Undefined \/ b.remote.transport = Undefined
    THEN Throw(b, "TypeError")
    ELSE The({[sent EXCEPT !.heap = b.heap] :
                sent \in {transportSend([Stored(b, f.store) EXCEPT !.heap = f.heap],
                                        b.remote.transport[1], f.root) :
                            f \in {freeze(b.heap, message, Store(b))}}})

\* The proxy _getFunction(key) returned, called with args.
handleProxy(b, fn, args) ==
    IF fn.transport = Undefined
    THEN Throw(b, "TypeError")
    ELSE transportSend([b EXCEPT !.heap = Append(@, ArrayOf(<<fn.key>> \o args))],
                       fn.transport[1], Ref(Len(b.heap) + 1))

\* fn.apply(null, args) for a value the message carried.
Call(b, fn, args) ==
    IF fn.t # "function" THEN Throw(b, "TypeError") ELSE handleProxy(b, fn.v, args)

\* A proxy that takes the Remote for connected whatever its state.
NeverOffline(b) == FALSE

\* !self.transport in the proxy _onReady installs.
ProxyOffline(b) == b.remote.transport = Undefined

\* The proxy _onReady installs for name, called with args.
apiProxy(b, name, args) ==
    IF ProxyOffline(b)
    THEN IF args # <<>> /\ args[Len(args)].t = "function"
         THEN Effect(b, [e |-> "callback", fn |-> args[Len(args)].v,
                         arg |-> "ENOTCONNECTED"])
         ELSE b
    ELSE send([b EXCEPT !.heap = Append(@, ArrayOf(<<Str(name)>> \o args))],
              Ref(Len(b.heap) + 1))

\* An api in which no name ever counts as set.
NeverSet(api, name) == FALSE

\* self.api[name] of _onReady: truthy when name has a proxy already, and
\* when the api object, an object literal, inherits name.
AlreadySet(api, name) == name \in DOMAIN api \/ name \in ObjectPrototype

RECURSIVE Install(_, _)
\* names.forEach of _onReady: a new proxy object for each name that has
\* none.  api maps a name to its proxy object, proxy objects being numbered
\* in the order of their creation.
Install(api, names) ==
    IF names = <<>> THEN api
    ELSE LET name == Head(names).v
         IN Install(IF AlreadySet(api, name) THEN api
                    ELSE [n \in DOMAIN api \cup {name} |->
                            IF n = name THEN Cardinality(DOMAIN api) + 1 ELSE api[n]],
                    Tail(names))

\* What emit("error", names) carries, as a label.
Label(x) == IF x.t = "error" THEN x.v ELSE "names"

\* Remote.prototype._onReady(names)
onReady(b, args) ==
    LET names == IF args = <<>> THEN NoValue ELSE args[1]
    IN IF getType(b.heap, names) = "array"
       THEN emit([b EXCEPT !.remote.api = Install(@, b.heap[names.v].vals)],
                 "connect", "")
       ELSE The({IF b1.threw # Undefined THEN b1 ELSE Throw(b1, "TypeError") :
                   b1 \in {emit(b, "error", Label(names))}})

\* A wrapper that leaves its entry in the table.
UnregisterNothing(table, key) == table

\* delete callbacks[key]
Unregister(table, key) == [k \in DOMAIN table \ {key} |-> table[k]]

\* A wrapper that leaves the key counter where it is.
NotFreed(nextKey, key) == nextKey

\* self.nextKey = key
Freed(nextKey, key) == Some(key)

\* The wrapper _storeFunction stored as entry under key, called with args;
\* how says who called it, own whether the table is still this.callbacks.
wrapper(b, entry, key, args, how, own) ==
    The({IF entry.fn = "onReady" THEN onReady(b1, args) ELSE b1 :
           b1 \in {Effect([b EXCEPT !.remote.callbacks =
                                      IF own /\ @ # Undefined
                                      THEN Some(Unregister(@[1], key)) ELSE @,
                                    !.remote.nextKey = Freed(@, key),
                                    !.invoked[entry.reg] = Append(@, how)],
                          [e |-> "call", reg |-> entry.reg, fn |-> entry.fn,
                           how |-> how])}})

RECURSIVE Flush(_, _, _, _)
\* forEach(callbacks, function (callback) { callback(cerr); }) over the keys
\* Object.keys listed, in order.
Flush(b, table, keys, cerr) ==
    IF keys = <<>> \/ b.threw # Undefined THEN b
    ELSE The({Flush(b1, table, Tail(keys), cerr) :
                b1 \in {wrapper(b, table[Head(keys)], Head(keys), <<Err(cerr)>>,
                                [by |-> "flush", err |-> cerr, key |-> Head(keys)],
                                FALSE)}})

RECURSIVE Ascending(_)
\* Object.keys of a table of non-negative integer keys: ascending.
Ascending(S) ==
    IF S = {} THEN <<>>
    ELSE LET m == CHOOSE x \in S : \A y \in S : x <= y
         IN <<m>> \o Ascending(S \ {m})

\* err || the EDISCONNECT error; err is Undefined or Some(code).
Cerr(err) == IF err = Undefined THEN "EDISCONNECT" ELSE err[1]

\* Remote.prototype.disconnect(err); err is Undefined or Some(code).
disconnect(b, err) ==
    IF b.remote.transport = Undefined
    THEN emit(b, "error", IF err = Undefined THEN "Not connected" ELSE err[1])
    ELSE The({IF b1.threw # Undefined THEN b1
              ELSE emit([b1 EXCEPT !.remote.nextKey = Undefined], "disconnect",
                        IF err = Undefined THEN "" ELSE err[1]) :
                b1 \in {Flush([b EXCEPT !.remote.transport = Undefined,
                                        !.remote.callbacks = Undefined,
                                        !.flushed = Some([callbacks |-> b.remote.callbacks[1],
                                                          cerr |-> Cerr(err)])],
                              b.remote.callbacks[1],
                              Ascending(DOMAIN b.remote.callbacks[1]), Cerr(err))}})

\* Remote.prototype.connect(transport)
connect(b, t) ==
    send([b EXCEPT !.remote.transport = Some(t),
                   !.remote.callbacks = Some(<<>>),
                   !.remote.nextKey = Some(1),
                   !.heap = <<ArrayOf(<<Str(sReady), Fn("onReady")>>)>>],
         Ref(1))

\* The elements of sequence s.
Range(s) == {s[i] : i \in DOMAIN s}

\* A procedure the local Agent publishes: echo(v, cb) replies cb(null, v).
echo(b, args) ==
    IF Len(args) < 2 THEN Throw(b, "TypeError") ELSE Call(b, args[2], <<Null, args[1]>>)

\* The rest of _onMessage once liven has returned lv.
dispatch(b, lv) ==
    LET message == lv.heap[lv.root.v].vals
        id == message[1]
        args == Tail(message)
    IN IF id.t = "string" /\ id.v = sReady
       THEN IF args = <<>> THEN Throw(b, "TypeError")
            ELSE Call([b EXCEPT !.heap = Append(lv.heap,
                                                ArrayOf([i \in DOMAIN b.published |->
                                                           Str(b.published[i])]))],
                      args[1], <<Ref(Len(lv.heap) + 1)>>)
       ELSE IF id.t = "string"
       THEN IF id.v \in Range(b.published) THEN echo([b EXCEPT !.heap = lv.heap], args)
            ELSE IF id.v \in ObjectPrototype
            THEN Effect(b, [e |-> "inherited", fn |-> id.v])
            ELSE emit(b, "error", "Should be function")
       ELSE IF id.t = "number" /\ id.v \in DOMAIN b.remote.callbacks[1]
       THEN wrapper([b EXCEPT !.heap = lv.heap], b.remote.callbacks[1][id.v], id.v,
                    args, [by |-> "message", err |-> "", key |-> id.v], TRUE)
       ELSE emit(b, "error", "Should be function")

\* Remote.prototype._onMessage(message) for the wire value w.
onMessage(b, w) ==
    IF ~(getType(w.heap, w.root) = "array" /\ w.heap[w.root.v].vals # <<>>)
    THEN emit(b, "error", "Message should be an array")
    ELSE The({IF lv.raised THEN Throw(b, "TypeError") ELSE dispatch(b, lv) :
                lv \in {liven(w.heap, w.root, b.remote.transport)}})

\* What the Transport does with one inbound frame holding w: it emits
\* "message"; onData catches an exception out of the listener and emits it
\* as "error", which the Remote listens to with disconnect.
deliver(b, w) ==
    The({IF b1.threw = Undefined THEN b1
         ELSE disconnect(Effect([b1 EXCEPT !.threw = Undefined],
                                [e |-> "caught", err |-> b1.threw[1]]),
                         b1.threw) :
           b1 \in {onMessage(b, w)}})

\* What `last` holds before any handler has run.
NoHandler ==
    [op |-> "", input |-> "", state |-> "Idle", regs |-> 0, trace |-> <<>>,
     flushed |-> Undefined, threw |-> Undefined]

\* The far Peer before its connect(), publishing nothing.
NoFar ==
    [remote |-> Remote, agent |-> NoAgentConnect, regs |-> 0, invoked |-> <<>>,
     events |-> NoRemoteEvents, connects |-> 0, published |-> <<>>]

\* Nothing in flight in either direction.
NoWire == [near |-> <<>>, far |-> <<>>]

IdleLink ==
    /\ far = NoFar
    /\ wire = NoWire
    /\ held = {}

IdlePeer ==
    /\ remote = Remote
    /\ agent = NoAgentConnect
    /\ regs = 0
    /\ invoked = <<>>
    /\ events = NoRemoteEvents
    /\ connects = 0
    /\ errorListener = TRUE
    /\ IdleLink
    /\ last = NoHandler

\* --------------------------------------------------- Framer specification

RECURSIVE SeqsUpTo(_, _)
\* All sequences over S of length at most n.
SeqsUpTo(S, n) ==
    IF n = 0 THEN {<<>>}
    ELSE LET shorter == SeqsUpTo(S, n - 1)
         IN shorter \cup {Append(s, x) : s \in shorter, x \in S}

Blobs == SeqsUpTo(Byte, MaxBlobLen)

IdleFramer ==
    /\ parser = deFramer
    /\ frames = <<>>
    /\ blobs = <<>>
    /\ rest = <<>>

IdleMarshal ==
    /\ subject = Undefined
    /\ frozen = Undefined
    /\ livened = Undefined

NoEvents == [count |-> [k \in {"message", "drain", "error", "EDISCONNECT"} |-> 0],
             after |-> {}]

IdleTransport ==
    /\ duplex = TRUE
    /\ listeners = {}
    /\ destroyed = {}
    /\ emitted = NoEvents
    /\ messages = <<>>
    /\ occurred = {}
    /\ streamEvents = 0

InitFramer ==
    /\ blobs \in SeqsUpTo(Blobs, MaxFrames)
    /\ rest = FrameAll(blobs)
    /\ parser = deFramer
    /\ frames = <<>>
    /\ IdleMarshal
    /\ IdlePeer
    /\ IdleTransport

\* The stream delivers the next n bytes as one chunk.
Feed(n) ==
    /\ n \in 1..Len(rest)
    /\ LET d == Parse(parser, SubSeq(rest, 1, n), {})
       IN /\ parser' = Closure(d)
          /\ frames' = frames \o d.out
    /\ rest' = SubSeq(rest, n + 1, Len(rest))
    /\ UNCHANGED <<blobs, marshalVars, transportVars, peerVars>>

NextFramer == \E n \in 1..(4 + MaxBlobLen) * MaxFrames : Feed(n)

SpecFramer == InitFramer /\ [][NextFramer]_vars

\* C3: once every chunk of the framed concatenation of B1..Bn has been fed,
\* onFrame has been called exactly n times with exactly B1..Bn in order, and
\* a zero length prefix has produced its empty frame and state 0 as soon as
\* its fourth length byte was consumed.
C3_FramingRoundTrip ==
    rest = <<>> => (frames = blobs /\ parser.state = 0)

\* ------------------------------------------------------------- Transport

\* The input stream, and the output stream: the same object when the
\* Transport was constructed with one argument.
Input == "input"

Output == IF duplex THEN "input" ELSE "output"

\* The listeners the constructor attaches.
Transport(input, output) ==
    {<<input, "data">>, <<input, "end">>, <<input, "timeout">>, <<input, "close">>,
     <<input, "error">>, <<output, "drain">>}
      \cup (IF output # input
            THEN {<<output, "end">>, <<output, "timeout">>, <<output, "close">>,
                  <<output, "error">>}
            ELSE {})

\* msgpack.decode(frame), for the payloads the model sends: a one-byte
\* positive fixint decodes to its number, the never-used type byte 0xc1
\* (and an empty payload) throws.
decode(frame) ==
    IF frame # <<>> /\ frame[1] < 128
    THEN [ok |-> TRUE, message |-> Num(frame[1])]
    ELSE [ok |-> FALSE, message |-> NoValue]

\* self.emit(event) recorded in e = [count, after].
Emit(e, event) ==
    [count |-> [e.count EXCEPT ![event] = @ + 1],
     after |-> IF e.count["EDISCONNECT"] > 0 THEN e.after \cup {event} ELSE e.after]

RECURSIVE EmitFrames(_, _)
\* The deFramer callback of the Transport on each frame of fs in turn:
\* emit "error" for a payload that does not decode, "message" otherwise.
EmitFrames(e, fs) ==
    IF fs = <<>> THEN e
    ELSE EmitFrames(Emit(e, IF decode(Head(fs)).ok THEN "message" ELSE "error"), Tail(fs))

RECURSIVE Decoded(_)
\* The messages among the frames fs.
Decoded(fs) ==
    IF fs = <<>> THEN <<>>
    ELSE (IF decode(Head(fs)).ok THEN <<decode(Head(fs)).message>> ELSE <<>>)
           \o Decoded(Tail(fs))

\* onData(chunk): parse the chunk; an exception out of parse is emitted as
\* "error".
onData(chunk) ==
    LET d == Parse(parser, chunk, {})
        e == EmitFrames(emitted, d.out)
    IN /\ parser' = Closure(d)
       /\ frames' = frames \o d.out
       /\ messages' = messages \o Decoded(d.out)
       /\ emitted' = IF d.raised THEN Emit(e, "error") ELSE e
       /\ UNCHANGED <<listeners, destroyed>>

\* onDrain()
onDrain ==
    /\ emitted' = Emit(emitted, "drain")
    /\ UNCHANGED <<parser, frames, messages, listeners, destroyed>>

\* onError(err)
onError ==
    /\ emitted' = Emit(emitted, "error")
    /\ UNCHANGED <<parser, frames, messages, listeners, destroyed>>

\* The listeners onDisconnect removes.
Removed(input, output) ==
    {<<input, "data">>, <<input, "end">>, <<input, "timeout">>, <<input, "close">>,
     <<output, "drain">>}
      \cup (IF input # output
            THEN {<<output, "end">>, <<output, "timeout">>, <<output, "close">>}
            ELSE {})

\* onDisconnect()
onDisconnect ==
    /\ listeners' = listeners \ Removed(Input, Output)
    /\ destroyed' = destroyed \cup {Input, Output}
    /\ emitted' = Emit(emitted, "EDISCONNECT")
    /\ UNCHANGED <<parser, frames, messages>>

InitTransport ==
    /\ duplex \in BOOLEAN
    /\ listeners = Transport(Input, Output)
    /\ destroyed = {}
    /\ emitted = NoEvents
    /\ messages = <<>>
    /\ occurred = {}
    /\ streamEvents = 0
    /\ blobs \in SeqsUpTo({<<1>>, <<193>>}, MaxFrames)
    /\ rest = FrameAll(blobs)
    /\ parser = deFramer
    /\ frames = <<>>
    /\ IdleMarshal
    /\ IdlePeer

Ignored == UNCHANGED <<parser, frames, messages, emitted, listeners, destroyed>>

\* The input stream emits "data" with the next n bytes.
StreamData(n) ==
    /\ streamEvents < MaxStreamEvents
    /\ n \in 1..Len(rest)
    /\ rest' = SubSeq(rest, n + 1, Len(rest))
    /\ occurred' = occurred \cup {<<Input, "data">>}
    /\ streamEvents' = streamEvents + 1
    /\ IF <<Input, "data">> \in listeners THEN onData(SubSeq(rest, 1, n)) ELSE Ignored
    /\ UNCHANGED <<blobs, duplex, marshalVars, peerVars>>

\* Stream s emits "end", "timeout" or "close".
StreamEnd(s, event) ==
    /\ streamEvents < MaxStreamEvents
    /\ occurred' = occurred \cup {<<s, event>>}
    /\ streamEvents' = streamEvents + 1
    /\ IF <<s, event>> \in listeners THEN onDisconnect ELSE Ignored
    /\ UNCHANGED <<blobs, rest, duplex, marshalVars, peerVars>>

\* Stream s emits "error".
StreamError(s) ==
    /\ streamEvents < MaxStreamEvents
    /\ occurred' = occurred \cup {<<s, "error">>}
    /\ streamEvents' = streamEvents + 1
    /\ IF <<s, "error">> \in listeners THEN onError ELSE Ignored
    /\ UNCHANGED <<blobs, rest, duplex, marshalVars, peerVars>>

\* The output stream emits "drain".
StreamDrain ==
    /\ streamEvents < MaxStreamEvents
    /\ occurred' = occurred \cup {<<Output, "drain">>}
    /\ streamEvents' = streamEvents + 1
    /\ IF <<Output, "drain">> \in listeners THEN onDrain ELSE Ignored
    /\ UNCHANGED <<blobs, rest, duplex, marshalVars, peerVars>>

NextTransport ==
    \/ \E n \in 1..(4 + 1) * MaxFrames : StreamData(n)
    \/ \E s \in {Input, Output}, event \in {"end", "timeout", "close"} : StreamEnd(s, event)
    \/ \E s \in {Input, Output} : StreamError(s)
    \/ StreamDrain

SpecTransport == InitTransport /\ [][NextTransport]_vars

Terminal == {"end", "timeout", "close", "error"}

\* C8: once end, close, timeout or error has occurred on either stream, the
\* Transport has removed every listener it installed, destroyed both
\* streams and surfaced its EDISCONNECT error; and it surfaces that error
\* at most once in its life.
C8_TransportTeardown ==
    /\ emitted.count["EDISCONNECT"] <= 1
    /\ (\E o \in occurred : o[2] \in Terminal) =>
         /\ listeners = {}
         /\ destroyed = {Input, Output}
         /\ emitted.count["EDISCONNECT"] = 1

\* C9: after its EDISCONNECT error the Transport emits no message, no drain
\* and no error.
C9_DisconnectIsLast ==
    emitted.after = {}

\* ------------------------------------------------ marshaling specification

\* The property names the generated mappings draw from, in insertion order.
KeyList == << <<"a">>, <<"$", "a">>, <<"$">>, HasOwnPropertyKey >>

\* The values a generated node may hold: a number or any node of the heap.
Vals == {Num(7)} \cup {Ref(n) : n \in 1..MaxNodes}

\* The subsequences of KeyList with exactly k keys.
KeySeqs(k) ==
    LET Pick(S) == [i \in 1..Cardinality(S) |->
                      KeyList[CHOOSE j \in S : Cardinality({x \in S : x < j}) = i - 1]]
    IN {Pick(S) : S \in {T \in SUBSET (1..Len(KeyList)) : Cardinality(T) = k}}

\* The arrays and objects with exactly k own properties.
NodesWith(k) ==
    {ArrayOf(s) : s \in [1..k -> Vals]}
      \cup {[type |-> "object", keys |-> ks, vals |-> s] : ks \in KeySeqs(k), s \in [1..k -> Vals]}

RECURSIVE HeapsOf(_, _)
\* The heaps of n nodes holding at most e properties in all.
HeapsOf(n, e) ==
    IF n = 0 THEN {<<>>}
    ELSE UNION {{Append(h, nd) : h \in HeapsOf(n - 1, e - k), nd \in NodesWith(k)} : k \in 0..e}

RECURSIVE Walk(_, _, _, _), WalkEach(_, _, _, _, _)
\* The nodes reachable from value in depth-first pre-order, each with the
\* path of its first visit.
Walk(h, v, path, acc) ==
    IF v.t # "ref" \/ (\E i \in 1..Len(acc) : acc[i].node = v.v) THEN acc
    ELSE WalkEach(h, v.v, 1, path, Append(acc, [node |-> v.v, path |-> path]))

WalkEach(h, n, i, path, acc) ==
    IF i > Len(h[n].keys) THEN acc
    ELSE WalkEach(h, n, i + 1, path,
                  Walk(h, h[n].vals[i], Append(path, h[n].keys[i]), acc))

\* The graph reachable from g.root with its nodes renamed to their visit
\* order: two graphs have the same Shape exactly when they are structurally
\* equal and the same pairs of paths reach the same node in both.
Shape(g) ==
    LET w == Walk(g.heap, g.root, <<>>, <<>>)
        num(id) == CHOOSE i \in 1..Len(w) : w[i].node = id
        rename(v) == IF v.t = "ref" THEN Ref(num(v.v)) ELSE v
    IN [root |-> rename(g.root),
        heap |-> [i \in 1..Len(w) |->
                    [g.heap[w[i].node] EXCEPT !.vals = [j \in DOMAIN @ |-> rename(@[j])]]]]

\* Every node of the live value g appears in the wire value f, at the path
\* of its first visit with the "$" keys escaped, as a node of the same type
\* whose keys are the node's keys, each key that begins with "$" carrying
\* one more "$".
KeysEscaped(g, f) ==
    LET w == Walk(g.heap, g.root, <<>>, <<>>)
        Esc(key) == IF key # <<>> /\ key[1] = "$" THEN <<"$">> \o key ELSE key
    IN \A i \in 1..Len(w) :
         LET n == g.heap[w[i].node]
             m == get(f.heap, f.root, [j \in 1..Len(w[i].path) |-> Esc(w[i].path[j])])
         IN /\ m.t = "ref"
            /\ f.heap[m.v].type = n.type
            /\ f.heap[m.v].keys = [j \in 1..Len(n.keys) |-> Esc(n.keys[j])]

NoStore == [callbacks |-> <<>>, nextKey |-> 1, regs |-> 0]

InitMarshal ==
    /\ subject \in {Some([heap |-> h, root |-> Ref(1)]) : h \in HeapsOf(MaxNodes, MaxProps)}
                   \cup {Some([heap |-> <<>>, root |-> Num(7)])}
    /\ frozen = Undefined
    /\ livened = Undefined
    /\ IdleFramer
    /\ IdleTransport
    /\ IdlePeer

\* freeze(v, storeFunction)
Freeze ==
    /\ frozen = Undefined
    /\ LET f == freeze(subject[1].heap, subject[1].root, NoStore)
       IN frozen' = Some([heap |-> f.heap, root |-> f.root])
    /\ UNCHANGED <<subject, livened, framerVars, transportVars, peerVars>>

\* liven(freeze(v), getFunction)
Liven ==
    /\ frozen # Undefined
    /\ livened = Undefined
    /\ livened' = Some(liven(frozen[1].heap, frozen[1].root, Undefined))
    /\ UNCHANGED <<subject, frozen, framerVars, transportVars, peerVars>>

NextMarshal == Freeze \/ Liven

SpecMarshal == InitMarshal /\ [][NextMarshal]_vars

\* C2: for a subject v without procedures, liven(freeze(v)) is structurally
\* equal to v with the same node reached by the same pairs of paths, and
\* freeze(v) is acyclic and carries each key that begins with "$" with one
\* extra leading "$".
C2_MarshalRoundTrip ==
    /\ frozen # Undefined => IsWire(frozen[1]) /\ KeysEscaped(subject[1], frozen[1])
    /\ livened # Undefined => ~livened[1].raised /\ Shape(livened[1]) = Shape(subject[1])

\* ------------------------------------------------------ Peer specification

\* The state of the spec's Peer state machine the Remote is in.
State ==
    IF remote.transport = Undefined
    THEN IF connects = 0 THEN "Idle" ELSE "Disconnected"
    ELSE IF events["connect"] = 0 THEN "Connecting" ELSE "Live"

\* The messages the far side sends, as the live values it freezes: "ready"
\* with and without its procedure, a reply to key k carrying a list of names
\* (one name or none) or a number, calls of echo with a number, a cyclic
\* object and a procedure, calls of two names nobody publishes, and an
\* empty message.
FarMessages ==
    {[heap |-> <<ArrayOf(<<Str(sReady), Fn("far")>>)>>, root |-> Ref(1)],
     [heap |-> <<ArrayOf(<<Str(sReady)>>)>>, root |-> Ref(1)],
     [heap |-> <<ArrayOf(<<Str(sEcho), Num(7), Fn("far")>>)>>, root |-> Ref(1)],
     [heap |-> <<SetProp(NewObject, <<"s">>, Ref(1)),
                 ArrayOf(<<Str(sEcho), Ref(1), Fn("far")>>)>>, root |-> Ref(2)],
     [heap |-> <<ArrayOf(<<Str(sEcho), Fn("far2"), Fn("far")>>)>>, root |-> Ref(1)],
     [heap |-> <<ArrayOf(<<Str(sFoo)>>)>>, root |-> Ref(1)],
     [heap |-> <<ArrayOf(<<Str(sToString)>>)>>, root |-> Ref(1)],
     [heap |-> <<ArrayOf(<<>>)>>, root |-> Ref(1)]}
    \cup {[heap |-> <<ArrayOf(names), ArrayOf(<<Num(k), Ref(1)>>)>>,
           root |-> Ref(2)] : k \in 1..MaxRegs, names \in {<<Str(sAdd)>>, <<>>}}
    \cup {[heap |-> <<ArrayOf(<<Num(k), Num(7)>>)>>, root |-> Ref(1)] : k \in 1..MaxRegs}

\* What arrives: the far side's messages frozen by its own freeze, and a
\* message that is no array.
Inbound ==
    {LET f == freeze(m.heap, m.root, NoStore) IN [heap |-> f.heap, root |-> f.root] :
       m \in FarMessages}
    \cup {[heap |-> <<>>, root |-> Num(7)]}

Commit(handled, op, input) ==
    \E b \in {handled} :
    /\ remote' = b.remote
    /\ agent' = b.agent
    /\ regs' = b.regs
    /\ invoked' = b.invoked
    /\ events' = b.events
    /\ last' = [op |-> op, input |-> input, state |-> State, regs |-> regs,
                trace |-> b.trace, flushed |-> b.flushed, threw |-> b.threw]
    /\ UNCHANGED <<errorListener, linkVars, framerVars, marshalVars, transportVars>>

InitPeer ==
    /\ remote = Remote
    /\ agent = NoAgentConnect
    /\ regs = 0
    /\ invoked = <<>>
    /\ events = NoRemoteEvents
    /\ connects = 0
    /\ errorListener \in BOOLEAN
    /\ last = NoHandler
    /\ IdleLink
    /\ IdleFramer
    /\ IdleMarshal
    /\ IdleTransport

\* agent.connect(transport, callback)
AgentConnect ==
    /\ connects = 0
    /\ connects' = 1
    /\ LET b == connect([Bundle EXCEPT !.events = NoRemoteEvents], 1)
       IN Commit([b EXCEPT !.agent.called = TRUE, !.agent.listening = TRUE,
                           !.agent.timer = TRUE],
                 "agentConnect", "")

\* remote.connect(transport) by the application, on a Remote with no
\* Transport bound.
RemoteConnect ==
    /\ remote.transport = Undefined
    /\ connects < MaxConnects
    /\ regs < MaxRegs
    /\ connects' = connects + 1
    /\ Commit(connect([Bundle EXCEPT !.events = NoRemoteEvents], connects + 1),
              "connect", "")

\* The arguments of a call: a number, and a callback when withCb.
Args(withCb) == IF withCb THEN <<Num(7), Fn("cb")>> ELSE <<Num(7)>>

\* remote.send(["foo", 7]) or remote.send(["foo", 7, cb]) by the application.
RemoteSend(withCb) ==
    /\ remote.transport # Undefined
    /\ withCb => regs < MaxRegs
    /\ LET b == [Bundle EXCEPT !.heap = <<ArrayOf(<<Str(sFoo)>> \o Args(withCb))>>]
       IN Commit(send(b, Ref(1)), "send", [withCb |-> withCb])
    /\ UNCHANGED connects

\* remote.api[name](7) or remote.api[name](7, cb) by the application.
ProxyCall(name, withCb) ==
    /\ name \in DOMAIN remote.api
    /\ (withCb /\ remote.transport # Undefined) => regs < MaxRegs
    /\ Commit(apiProxy(Bundle, name, Args(withCb)), "proxy",
              [name |-> name, withCb |-> withCb])
    /\ UNCHANGED connects

\* The bound Transport emits "message" with w.
TransportMessage(w, lenient) ==
    /\ remote.transport # Undefined
    /\ Commit(deliver([Bundle EXCEPT !.lenient = lenient], w), "message", w)
    /\ UNCHANGED connects

\* The bound Transport emits "error" with err.
TransportError(err) ==
    /\ remote.transport # Undefined
    /\ Commit(disconnect(Bundle, Some(err)), "error", err)
    /\ UNCHANGED connects

\* The bound Transport receives a frame whose payload msgpack.decode throws
\* on: its deFramer callback emits "error" with the exception and no
\* "message", and the Remote's listener for "error" is disconnect.
UndecodableFrame ==
    /\ remote.transport # Undefined
    /\ Commit(disconnect(Bundle, Some("EDECODE")), "frame", "")
    /\ UNCHANGED connects

\* remote.disconnect() or remote.disconnect(err) by the application.
Disconnect(err) ==
    /\ Commit(disconnect(Bundle, err), "disconnect", err)
    /\ UNCHANGED connects

\* The bound Transport emits "drain".
TransportDrain ==
    /\ remote.transport # Undefined
    /\ Commit(emit(Bundle, "drain", ""), "drain", "")
    /\ UNCHANGED connects

\* onTimeout() of Agent.prototype.connect
onTimeout ==
    /\ agent.timer
    /\ Commit(callback(reset(Outcome(Bundle, "timeout")), "timeout"), "timeout", "")
    /\ UNCHANGED connects

Next ==
    \/ AgentConnect
    \/ RemoteConnect
    \/ \E withCb \in BOOLEAN : RemoteSend(withCb)
    \/ \E name \in {sAdd}, withCb \in BOOLEAN : ProxyCall(name, withCb)
    \/ \E w \in Inbound, lenient \in BOOLEAN : TransportMessage(w, lenient)
    \/ \E err \in {"EDISCONNECT", "EIO"} : TransportError(err)
    \/ UndecodableFrame
    \/ \E err \in {Undefined, Some("EAPP")} : Disconnect(err)
    \/ TransportDrain
    \/ onTimeout

Spec == InitPeer /\ [][Next]_vars

\* The places of the last handler's trace holding an effect of kind e.
Places(e) == {i \in DOMAIN last.trace : last.trace[i].e = e}

\* The places where the last handler emitted event.
Emits(event) == {i \in Places("emit") : last.trace[i].event = event}

\* C1: when disconnect(err) runs with a Transport bound, in Connecting or in
\* Live, every callback C that was in the table is invoked exactly once, with
\* err or else the EDISCONNECT error, the table is then empty, and all of
\* these calls come before the "disconnect" event.
C1_FlushOnDisconnect ==
    last.flushed # Undefined =>
      LET C == last.flushed[1].callbacks
          how(k) == [by |-> "flush", err |-> last.flushed[1].cerr, key |-> k]
      IN /\ \A k \in DOMAIN C :
              /\ Cardinality({i \in Places("call") : last.trace[i].reg = C[k].reg
                                                       /\ last.trace[i].how = how(k)}) = 1
              /\ invoked[C[k].reg] = <<how(k)>>
         /\ remote.callbacks = Undefined
         /\ \A i \in Places("call"), j \in Emits("disconnect") :
              last.trace[i].how.by = "flush" => i < j

\* C4: every message a handler hands to Transport.send is a wire value: no
\* cycle and no procedure in it, whether Remote.send or a handle proxy
\* hands it over.
C4_SentIsFrozen ==
    \A i \in Places("send") : IsWire(last.trace[i].message)

\* C5: a stored procedure is run at most once per registration, by its
\* reply or by the flush and never both, and its entry has left the table
\* once it has run.
C5_SingleShot ==
    \A r \in DOMAIN invoked :
      /\ Len(invoked[r]) <= 1
      /\ Len(invoked[r]) = 1 =>
           \/ remote.callbacks = Undefined
           \/ \A k \in DOMAIN remote.callbacks[1] : remote.callbacks[1][k].reg # r

\* One registration has been run by its reply and another by the flush.
C5_Witness ==
    /\ \E r \in DOMAIN invoked : invoked[r] # <<>> /\ invoked[r][1].by = "message"
    /\ \E r \in DOMAIN invoked : invoked[r] # <<>> /\ invoked[r][1].by = "flush"

\* What C6 promises of a proxy call: nothing is sent, nothing is stored,
\* and a procedure given last is called exactly once, with ENOTCONNECTED.
Refused ==
    /\ Places("send") = {}
    /\ regs = last.regs
    /\ Places("call") = {}
    /\ Cardinality(Places("callback")) = (IF last.input.withCb THEN 1 ELSE 0)
    /\ \A i \in Places("callback") :
         last.trace[i].fn = "cb" /\ last.trace[i].arg = "ENOTCONNECTED"

C7_DisconnectOnce ==
    /\ events["disconnect"] <= 1
    /\ last.flushed # Undefined =>
         /\ events["disconnect"] = 1
         /\ remote.transport = Undefined
         /\ remote.callbacks = Undefined
         /\ remote.nextKey = Undefined
    /\ (last.op = "disconnect" /\ last.state \in {"Idle", "Disconnected"}) =>
         /\ Emits("disconnect") = {}
         /\ Places("call") = {}

\* C10: the callback of Agent.connect is called exactly once, by the first
\* of connect, error and timeout, which stops the other two; until then all
\* three stay armed.
C10_ConnectCallbackOnce ==
    /\ agent.callback = (IF agent.first = Undefined THEN <<>> ELSE <<agent.first[1]>>)
    /\ agent.first # Undefined => ~agent.listening /\ ~agent.timer
    /\ (agent.called /\ agent.first = Undefined) => agent.listening /\ agent.timer

\* The callback has been called, and an event that would have called it
\* came afterwards.
C10_Witness ==
    /\ Len(agent.callback) = 1
    /\ agent.late # {}

\* C11: a name that has a proxy in Remote.api keeps that very proxy object
\* through every step: no disconnect, connect or ready reply, whether it
\* lists the name again or not, removes or replaces it.
C11_ProxyPersists ==
    [][\A n \in DOMAIN remote.api :
         n \in DOMAIN remote.api' /\ remote.api'[n] = remote.api[n]]_vars

\* A ready reply has been processed on the second connect of a Remote that
\* already held a proxy.
C11_Witness ==
    /\ connects = 2
    /\ last.op = "message"
    /\ last.state = "Connecting"
    /\ Emits("connect") # {}
    /\ sAdd \in DOMAIN remote.api

\* C13: a frame whose payload fails to deserialize leaves the connection
\* as it was: the Remote stays bound to the Transport and its outstanding
\* callbacks are neither flushed nor run.
C13_DecodeFailureKeepsConnection ==
    last.op = "frame" =>
      /\ remote.transport # Undefined
      /\ remote.callbacks # Undefined
      /\ last.flushed = Undefined
      /\ Places("call") = {}

\* ------------------------------------------------------- Key specification

\* The keys the tables and the key counter are drawn from: the two ends of
\* the range of (key + 1) >> 0 and the keys around zero.
KeyValues == {MaxInt32 - 1, MaxInt32, MinInt32, -1, 0, 1}

\* A callback table holding an application callback under each key of S.
TableOf(S) ==
    [k \in S |-> [fn |-> "cb", reg |-> Cardinality({j \in S : j <= k})]]

\* The far side's reply to handle k: [k, 7].
Reply(k) == [heap |-> <<ArrayOf(<<Num(k), Num(7)>>)>>, root |-> Ref(1)]

\* A Live Remote whose key counter has reached any of KeyValues, with any
\* callbacks outstanding under those keys.
InitKeys ==
    /\ \E S \in SUBSET KeyValues, n \in KeyValues :
         /\ Cardinality(S) < MaxTable
         /\ remote = [transport |-> Some(1), callbacks |-> Some(TableOf(S)),
                      nextKey |-> Some(n), api |-> <<>>]
         /\ regs = Cardinality(S)
         /\ invoked = [i \in 1..Cardinality(S) |-> <<>>]
    /\ agent = NoAgentConnect
    /\ events = [NoRemoteEvents EXCEPT !["connect"] = 1]
    /\ connects = 1
    /\ errorListener = TRUE
    /\ last = NoHandler
    /\ IdleLink
    /\ IdleFramer
    /\ IdleMarshal
    /\ IdleTransport

\* remote.send(["foo", 7, cb]): one _storeFunction call.
StoreCallback ==
    /\ remote.transport # Undefined
    /\ regs < MaxTable
    /\ LET b == [Bundle EXCEPT !.heap = <<ArrayOf(<<Str(sFoo)>> \o Args(TRUE))>>]
       IN Commit(send(b, Ref(1)), "send", [withCb |-> TRUE])
    /\ UNCHANGED connects

\* The bound Transport emits "message" with the reply to handle k.
CallbackReply(k) == TransportMessage(Reply(k), TRUE)

NextKeys ==
    \/ StoreCallback
    \/ \E k \in KeyValues : CallbackReply(k)

SpecKeys == InitKeys /\ [][NextKeys]_vars

\* The keys whose callbacks handler l ran on an inbound message.
Consumed(l) ==
    {l.trace[i].how.key :
       i \in {j \in DOMAIN l.trace : l.trace[j].e = "call" /\ l.trace[j].how.by = "message"}}

\* The key under which registration r sits in table.
KeyOf(table, r) == CHOOSE k \in DOMAIN table : table[k].reg = r

\* C12: when an inbound message has consumed the callback under key k and
\* the Remote stays connected, _storeFunction would return k next, whatever
\* else the table holds; a step that neither consumes nor stores leaves the
\* table and the key counter alone; and the store that comes next does put
\* its callback under k.
C12_KeyReuse ==
    [][/\ \A k \in Consumed(last') :
            remote'.transport # Undefined =>
              storeFunction([callbacks |-> remote'.callbacks[1],
                             nextKey |-> remote'.nextKey[1], regs |-> regs'],
                            "cb").key = Some(k)
       /\ (Consumed(last') = {} /\ regs' = regs /\ remote'.transport # Undefined) =>
            (remote'.callbacks = remote.callbacks /\ remote'.nextKey = remote.nextKey)
       /\ \A k \in Consumed(last) :
            (regs' = regs + 1 /\ remote.transport # Undefined) =>
              KeyOf(remote'.callbacks[1], regs') = k]_vars

\* A callback was consumed while another stayed outstanding, and the next
\* store took the freed key.
C12_Witness ==
    /\ last.op = "send"
    /\ regs = MaxTable
    /\ \E r \in DOMAIN invoked : /\ invoked[r] # <<>>
                                 /\ invoked[r][1].by = "message"
                                 /\ invoked[r][1].key \in DOMAIN remote.callbacks[1]
                                 /\ remote.callbacks[1][invoked[r][1].key].reg = regs
    /\ Cardinality(DOMAIN remote.callbacks[1]) >= 2

\* ------------------------------------------------- Handshake specification

\* What the far Agent may publish, as Object.keys lists it.
PublishedLists == {<<>>, <<sAdd>>, <<sToString>>, <<sAdd, sToString>>}

\* The handler bundle of the far Peer.
FarBundle ==
    [Bundle EXCEPT !.remote = far.remote, !.agent = far.agent, !.regs = far.regs,
                   !.invoked = far.invoked, !.events = far.events,
                   !.published = far.published]

\* The messages handler b handed to Transport.send, in order: the stream
\* carries them to the other end.
Sent(b) ==
    LET sends == SelectSeq(b.trace, LAMBDA x : x.e = "send")
    IN [i \in DOMAIN sends |-> sends[i].message]

\* The near Peer takes the outcome of a handler, and what it sent is in
\* flight to the far end.
CommitNear(handled, op, input) ==
    \E b \in {handled} :
    /\ remote' = b.remote
    /\ agent' = b.agent
    /\ regs' = b.regs
    /\ invoked' = b.invoked
    /\ events' = b.events
    /\ last' = [op |-> op, input |-> input, state |-> State, regs |-> regs,
                trace |-> b.trace, flushed |-> b.flushed, threw |-> b.threw]
    /\ wire' = [wire EXCEPT !.far = @ \o Sent(b)]
    /\ UNCHANGED <<errorListener, far, held, framerVars, marshalVars, transportVars>>

\* The far Peer takes the outcome of a handler, and what it sent is in
\* flight to the near end.
CommitFar(handled, n, received) ==
    \E b \in {handled} :
    /\ far' = [far EXCEPT !.remote = b.remote, !.agent = b.agent, !.regs = b.regs,
                          !.invoked = b.invoked, !.events = b.events,
                          !.connects = n]
    /\ wire' = [near |-> wire.near \o Sent(b),
                far |-> IF received THEN Tail(wire.far) ELSE wire.far]
    /\ UNCHANGED <<remote, agent, regs, invoked, events, connects, errorListener, held,
                   last, framerVars, marshalVars, transportVars>>

\* Two Agents, neither connected yet, at the two ends of a stream; the near
\* one publishes echo, the far one any of PublishedLists.
InitHandshake ==
    /\ remote = Remote
    /\ agent = NoAgentConnect
    /\ regs = 0
    /\ invoked = <<>>
    /\ events = NoRemoteEvents
    /\ connects = 0
    /\ errorListener \in BOOLEAN
    /\ \E names \in PublishedLists : far = [NoFar EXCEPT !.published = names]
    /\ wire = NoWire
    /\ held = {}
    /\ last = NoHandler
    /\ IdleFramer
    /\ IdleMarshal
    /\ IdleTransport

\* agent.connect(transport, callback) at the near end.
NearConnect ==
    /\ connects = 0
    /\ connects' = 1
    /\ LET b == connect([Bundle EXCEPT !.events = NoRemoteEvents], 1)
       IN CommitNear([b EXCEPT !.agent.called = TRUE, !.agent.listening = TRUE,
                               !.agent.timer = TRUE],
                     "agentConnect", "")

\* agent.connect(transport, callback) at the far end.
FarConnect ==
    /\ far.connects = 0
    /\ LET b == connect([FarBundle EXCEPT !.events = NoRemoteEvents], 1)
       IN CommitFar([b EXCEPT !.agent.called = TRUE, !.agent.listening = TRUE,
                              !.agent.timer = TRUE],
                    1, FALSE)

\* The near Transport emits "message" with the next message in flight.
NearReceive ==
    /\ remote.transport # Undefined
    /\ wire.near # <<>>
    /\ \E b \in {deliver(Bundle, Head(wire.near))} :
         /\ remote' = b.remote
         /\ agent' = b.agent
         /\ regs' = b.regs
         /\ invoked' = b.invoked
         /\ events' = b.events
         /\ last' = [op |-> "message", input |-> Head(wire.near), state |-> State,
                     regs |-> regs, trace |-> b.trace, flushed |-> b.flushed,
                     threw |-> b.threw]
         /\ wire' = [near |-> Tail(wire.near), far |-> wire.far \o Sent(b)]
    /\ UNCHANGED <<connects, errorListener, far, held, framerVars, marshalVars,
                   transportVars>>

\* The far Transport emits "message" with the next message in flight.
FarReceive ==
    /\ far.remote.transport # Undefined
    /\ wire.far # <<>>
    /\ CommitFar(deliver(FarBundle, Head(wire.far)), far.connects, TRUE)

\* remote.api[name](7, cb) by the application at the near end.
NearCall(name) ==
    /\ name \in DOMAIN remote.api
    /\ remote.transport # Undefined
    /\ regs < MaxRegs
    /\ CommitNear(apiProxy(Bundle, name, Args(TRUE)), "proxy",
                  [name |-> name, withCb |-> TRUE])
    /\ UNCHANGED connects

\* remote.api[name](7, cb) by the application at the far end.
FarCall(name) ==
    /\ name \in DOMAIN far.remote.api
    /\ far.remote.transport # Undefined
    /\ far.regs < MaxRegs
    /\ CommitFar(apiProxy(FarBundle, name, Args(TRUE)), far.connects, FALSE)

NextHandshake ==
    \/ NearConnect
    \/ FarConnect
    \/ NearReceive
    \/ FarReceive
    \/ \E name \in {sAdd, sToString} : NearCall(name)
    \/ \E name \in {sEcho} : FarCall(name)

\* Each end does call connect, and the stream delivers what is in flight.
FairHandshake ==
    /\ WF_vars(NearConnect)
    /\ WF_vars(FarConnect)
    /\ WF_vars(NearReceive)
    /\ WF_vars(FarReceive)

SpecHandshake == InitHandshake /\ [][NextHandshake]_vars /\ FairHandshake

\* The names that have a proxy in api.
Proxied(api) == DOMAIN api

\* C14: two Agents joined by a reliable ordered stream, each sending
\* ["ready", cb] on connect and neither disconnecting: each Peer emits
\* "connect" at most once for its connect, from then on its api holds a
\* proxy for every name the other Agent publishes, and both do eventually
\* emit "connect".
C14_Handshake ==
    /\ [](/\ events["connect"] <= 1
          /\ far.events["connect"] <= 1
          /\ events["connect"] = 1 => Range(far.published) \subseteq Proxied(remote.api)
          /\ far.events["connect"] = 1 => sEcho \in Proxied(far.remote.api))
    /\ <>(events["connect"] = 1 /\ far.events["connect"] = 1)

\* --------------------------------------------------- Handle specification

\* The calls of echo the far side makes: echo(7, cb) and echo(cb2, cb).
EchoCalls ==
    {LET f == freeze(m.heap, m.root, NoStore) IN [heap |-> f.heap, root |-> f.root] :
       m \in {[heap |-> <<ArrayOf(<<Str(sEcho), Num(7), Fn("far")>>)>>, root |-> Ref(1)],
              [heap |-> <<ArrayOf(<<Str(sEcho), Fn("far2"), Fn("far")>>)>>,
               root |-> Ref(1)]}}

\* The handle proxies in the live message lv that liven returned.
Handles(lv) ==
    UNION {{lv.heap[n].vals[i].v :
              i \in {j \in DOMAIN lv.heap[n].vals : lv.heap[n].vals[j].t = "function"}} :
             n \in DOMAIN lv.heap}

\* A Live Remote after a handshake that installed the proxy add, with no
\* callback outstanding.
InitHandles ==
    /\ remote = [transport |-> Some(1), callbacks |-> Some(<<>>), nextKey |-> Some(1),
                 api |-> Install(<<>>, <<Str(sAdd)>>)]
    /\ agent = NoAgentConnect
    /\ regs = 0
    /\ invoked = <<>>
    /\ events = [NoRemoteEvents EXCEPT !["connect"] = 1]
    /\ connects = 1
    /\ errorListener \in BOOLEAN
    /\ far = NoFar
    /\ wire = NoWire
    /\ held = {}
    /\ last = NoHandler
    /\ IdleFramer
    /\ IdleMarshal
    /\ IdleTransport

\* A handler's outcome, with the handle proxies fns kept by the application.
CommitHeld(handled, op, input, fns) ==
    \E b \in {handled} :
    /\ remote' = b.remote
    /\ agent' = b.agent
    /\ regs' = b.regs
    /\ invoked' = b.invoked
    /\ events' = b.events
    /\ last' = [op |-> op, input |-> input, state |-> State, regs |-> regs,
                trace |-> b.trace, flushed |-> b.flushed, threw |-> b.threw]
    /\ held' = held \cup fns
    /\ UNCHANGED <<errorListener, far, wire, framerVars, marshalVars, transportVars>>

\* The bound Transport emits "message" with a call of echo; the application
\* keeps the handle proxies echo was called with.
EchoMessage(w) ==
    /\ remote.transport # Undefined
    /\ CommitHeld(deliver(Bundle, w), "message", w,
                  Handles(liven(w.heap, w.root, remote.transport)))
    /\ UNCHANGED connects

\* The application calls a handle proxy it has kept: fn(7) or fn(7, cb).
HeldCall(fn, withCb) ==
    /\ fn \in held
    /\ CommitHeld(handleProxy(Bundle, fn, Args(withCb)), "handle",
                  [fn |-> fn, withCb |-> withCb], {})
    /\ UNCHANGED connects

\* The handle proxies liven can have built for the handles of EchoCalls.
HandleProxies ==
    {getFunction(Some(t), Num(k)).v : t \in 1..MaxConnects, k \in 1..2}

NextHandles ==
    \/ \E w \in EchoCalls : EchoMessage(w)
    \/ \E fn \in HandleProxies, withCb \in BOOLEAN : HeldCall(fn, withCb)
    \/ \E name \in {sAdd}, withCb \in BOOLEAN : ProxyCall(name, withCb)
    \/ \E err \in {Undefined, Some("EAPP")} : Disconnect(err)
    \/ \E err \in {"EIO"} : TransportError(err)
    \/ RemoteConnect

SpecHandles == InitHandles /\ [][NextHandles]_vars

\* C15: a proxy the Peer created earlier, a proxy of the api or a handle
\* proxy that liven built while a Transport was bound, called after the Peer
\* has disconnected, hands nothing to a Transport and stores nothing: it
\* calls the procedure given last once with ENOTCONNECTED, or drops the call.
C15_ProxyAfterDisconnect ==
    (last.op \in {"proxy", "handle"} /\ last.state = "Disconnected") => Refused

\* The registrations an inbound message has run.
RunByMessage == {r \in DOMAIN invoked : invoked[r] # <<>> /\ invoked[r][1].by = "message"}

\* C16: once the callback under key k has been consumed, no later inbound
\* message with dispatch id k runs a procedure: the consumed registration
\* is not run again, and no other registration is ever run by a message
\* under the same key k.
C16_StaleHandleNoOp ==
    /\ \A r \in DOMAIN invoked : Len(invoked[r]) <= 1
    /\ \A r1, r2 \in RunByMessage : r1 # r2 => invoked[r1][1].key # invoked[r2][1].key

\* Whether the inbound wire message w violates the protocol for a Remote
\* in state r whose Agent publishes echo: it is no array or an empty one,
\* it names neither "ready" nor a published procedure, its number is the key
\* of no stored callback, it is ["ready"] with no procedure, or it is the
\* reply to the ready request and carries no list of names.
Violation(w, r) ==
    IF ~(getType(w.heap, w.root) = "array" /\ w.heap[w.root.v].vals # <<>>) THEN TRUE
    ELSE LET message == w.heap[w.root.v].vals
             id == message[1]
         IN IF id.t = "string"
            THEN IF id.v = sReady
                 THEN Len(message) < 2 \/ getType(w.heap, message[2]) # "object"
                 ELSE id.v # sEcho
            ELSE IF id.t = "number" /\ id.v \in DOMAIN r.callbacks[1]
            THEN /\ r.callbacks[1][id.v].fn = "onReady"
                 /\ (Len(message) < 2 \/ getType(w.heap, message[2]) # "array")
            ELSE TRUE

\* C17: an inbound message that violates the protocol makes the Peer emit
\* "error" and nothing else: no published procedure and no stored callback
\* is run, no proxy is installed, "connect" is not emitted, and no exception
\* leaves _onMessage.
C17_ViolationsAreErrors ==
    [][(last'.op = "message" /\ Violation(last'.input, remote)) =>
         /\ (Emits("error") # {})'
         /\ (Places("call") = {})'
         /\ (Places("inherited") = {})'
         /\ remote'.api = remote.api
         /\ (Emits("connect") = {})'
         /\ (Places("caught") = {})'
         /\ last'.threw = Undefined]_vars

\* C18: on a connected Peer, _storeFunction puts the new callback under a
\* key the table did not hold, leaves every other entry as it was, and
\* always ends with a key while the table does not hold the whole key
\* space (it throws "Ran out of keys" in no state within the bounds); no
\* registration sits under two keys.
C18_NoCollision ==
    [][/\ regs' = regs + 1 =>
            LET old == remote.callbacks[1]
                new == remote'.callbacks[1]
                k == KeyOf(new, regs')
            IN /\ k \notin DOMAIN old
               /\ DOMAIN new = DOMAIN old \cup {k}
               /\ \A j \in DOMAIN old : new[j] = old[j]
       /\ (last'.op = "send" /\ remote.transport # Undefined) =>
            /\ regs' = regs + 1
            /\ last'.threw = Undefined
       /\ remote'.callbacks # Undefined =>
            \A j1, j2 \in DOMAIN remote'.callbacks[1] :
              remote'.callbacks[1][j1].reg = remote'.callbacks[1][j2].reg => j1 = j2]_vars

\* Two stores in a row on a table that held the top key: the second found
\* its start key taken and scanned on past the wrap.
C18_Witness ==
    /\ last.op = "send"
    /\ regs = MaxTable
    /\ DOMAIN remote.callbacks[1] = {MaxInt32 - 1, MaxInt32, MinInt32}
    /\ remote.callbacks[1][MaxInt32].reg = regs - 2
    /\ remote.callbacks[1][MaxInt32 - 1].reg = regs - 1
    /\ remote.callbacks[1][MinInt32].reg = regs

\* The handle the message of the last send carries in place of its
\* callback: the third element of ["foo", 7, cb] as handed to the Transport.
SentHandle ==
    LET message == last.trace[CHOOSE i \in Places("send") : TRUE].message
    IN [heap |-> message.heap, root |-> message.heap[message.root.v].vals[3]]

\* C19: for every value the key counter can reach, the wrap past the top
\* of the key space included, the key _storeFunction returns is a
\* non-negative integer, and freeze puts the object {"$": key} with exactly
\* that key, key 0 included, in the place of the procedure.
C19_WireHandles ==
    (last.op = "send" /\ regs = last.regs + 1) =>
      LET k == KeyOf(remote.callbacks[1], regs)
          h == SentHandle
      IN /\ k >= 0
         /\ h.root.t = "ref"
         /\ h.heap[h.root.v].type = "object"
         /\ h.heap[h.root.v].keys = << <<"$">> >>
         /\ h.heap[h.root.v].vals = <<Num(k)>>

\* ------------------------------------------- Raising-listener specification

\* The stream delivers the next n bytes as one chunk, and onFrame throws on
\* the first frame this call of parse hands it; the exception leaves parse,
\* and Transport.onData catches it.
FeedRaising(n) ==
    /\ n \in 1..Len(rest)
    /\ LET d == Parse(parser, SubSeq(rest, 1, n), Blobs)
       IN /\ d.raised
          /\ parser' = Closure(d)
          /\ frames' = frames \o d.out
    /\ rest' = SubSeq(rest, n + 1, Len(rest))
    /\ UNCHANGED <<blobs, marshalVars, transportVars, peerVars>>

NextRaising ==
    \/ \E n \in 1..(4 + MaxBlobLen) * MaxFrames : Feed(n)
    \/ \E n \in 1..(4 + MaxBlobLen) * MaxFrames : FeedRaising(n)

SpecRaising == InitFramer /\ [][NextRaising]_vars

\* The number of frames of the stream that lie wholly in the bytes fed so
\* far.
Complete ==
    LET fed == Len(FrameAll(blobs)) - Len(rest)
    IN Cardinality({m \in 1..Len(blobs) : Len(FrameAll(SubSeq(blobs, 1, m))) <= fed})

\* C20: whether or not an onFrame call has raised, the frames handed to
\* onFrame are at every moment exactly the complete frames of the bytes fed
\* so far, each once and in order: no frame is handed over a second time,
\* and the bytes after a frame are parsed as the frames they encode.  (For
\* streams of non-empty frames, as a Transport's messages are.)
C20_ExactlyOnceWhenRaising ==
    (\A i \in DOMAIN blobs : blobs[i] # <<>>) => frames = SubSeq(blobs, 1, Complete)

====
